---- MODULE Spec2Model ----
(***************************************************************************)
(* Model of GitHubHandler (src/src/github_handler.py): the identifier      *)
(* extractor _extract_repo_info, the relevance ranker                      *)
(* _filter_relevant_files and the resolver process_query.                  *)
(*                                                                         *)
(* A Python str is a sequence of one-character strings, so that lower(),   *)
(* split(), "in", endswith() and re.search() are computed and not assumed. *)
(* A score is counted in halves: the code's 1 is 2 here, its 0.5 is 1.     *)
(* The timestamp of an item's metadata block is left out: no operation     *)
(* reads it.                                                               *)
(***************************************************************************)
EXTENDS Integers, Sequences, FiniteSets, TLC

VARIABLES query, context, pc, repo_info, content, search_results,
          relevant_files, idx, result, calls, exc,
          files, other_query, rpc, scores, other_scores, ranked, reranked

vars == <<query, context, pc, repo_info, content, search_results,
          relevant_files, idx, result, calls, exc,
          files, other_query, rpc, scores, other_scores, ranked, reranked>>

resolver_vars == <<pc, repo_info, content, search_results, relevant_files,
                   idx, result, calls, exc, context>>

ranker_vars == <<files, other_query, rpc, scores, other_scores, ranked, reranked>>

(***************************************************************************)
(* Bounds and program constants                                            *)
(***************************************************************************)
MaxLen == 3

MaxFiles == 5

SizeLimit == 100000

(***************************************************************************)
(* Characters and strings                                                  *)
(***************************************************************************)
UpperCase == <<"A", "B", "C", "D", "E", "F", "G", "H", "I", "J", "K", "L", "M", "N", "O", "P", "Q", "R", "S", "T", "U", "V", "W", "X", "Y", "Z">>

LowerCase == <<"a", "b", "c", "d", "e", "f", "g", "h", "i", "j", "k", "l", "m", "n", "o", "p", "q", "r", "s", "t", "u", "v", "w", "x", "y", "z">>

DigitChars == <<"0", "1", "2", "3", "4", "5", "6", "7", "8", "9">>

Range(s) == {s[i] : i \in 1..Len(s)}

Whitespace == {" ", "\t"}

\* str.lower() on one character
lower_char(c) ==
    IF \E i \in 1..Len(UpperCase) : UpperCase[i] = c
    THEN LowerCase[CHOOSE i \in 1..Len(UpperCase) : UpperCase[i] = c]
    ELSE c

\* str.lower()
lower(s) == [i \in 1..Len(s) |-> lower_char(s[i])]

\* str.split() with no argument: the maximal runs of non-whitespace
RECURSIVE split(_)
split(s) ==
    IF s = <<>> THEN <<>>
    ELSE IF Head(s) \in Whitespace THEN split(Tail(s))
    ELSE LET n == CHOOSE n \in 1..Len(s) :
                      /\ \A i \in 1..n : s[i] \notin Whitespace
                      /\ n = Len(s) \/ s[n + 1] \in Whitespace
         IN <<SubSeq(s, 1, n)>> \o split(SubSeq(s, n + 1, Len(s)))

\* Python's  term in filename
contains(term, filename) ==
    \E i \in 0..(Len(filename) - Len(term)) :
        SubSeq(filename, i + 1, i + Len(term)) = term

\* str.endswith(tuple of suffixes)
endswith(s, suffixes) ==
    \E e \in suffixes :
        /\ Len(e) <= Len(s)
        /\ SubSeq(s, Len(s) - Len(e) + 1, Len(s)) = e

Ext_md == <<".", "m", "d">>

Ext_txt == <<".", "t", "x", "t">>

Ext_py == <<".", "p", "y">>

Ext_js == <<".", "j", "s">>

Ext_java == <<".", "j", "a", "v", "a">>

Extensions == {Ext_md, Ext_txt, Ext_py, Ext_js, Ext_java}

(***************************************************************************)
(* _extract_repo_info                                                      *)
(***************************************************************************)
None == [is_none |-> TRUE, value |-> <<>>]

Some(v) == [is_none |-> FALSE, value |-> v]

\* truth value of an Optional[str]: None and "" are false
truthy(o) == ~o.is_none /\ o.value # <<>>

\* [a-zA-Z0-9-]
OwnerChars == Range(UpperCase) \cup Range(LowerCase) \cup Range(DigitChars) \cup {"-"}

\* [a-zA-Z0-9-_.]
RepoChars == OwnerChars \cup {"_", "."}

\* repo_pattern with * in place of each +
match_at_star(s, i) ==
    \E j \in i..Len(s) :
        /\ \A k \in i..(j - 1) : s[k] \in OwnerChars
        /\ s[j] = "/"

\* a match of repo_pattern can start at i: a run of owner characters from i,
\* then "/", then at least one repository character
match_at(s, i) ==
    \E j \in (i + 1)..(Len(s) - 1) :
        /\ \A k \in i..(j - 1) : s[k] \in OwnerChars
        /\ s[j] = "/"
        /\ s[j + 1] \in RepoChars

\* re.search(repo_pattern, query) and match.group(1): the leftmost match,
\* each + taking as many characters as it can
re_search(s) ==
    LET starts == {i \in 1..Len(s) : match_at(s, i)}
    IN IF starts = {} THEN None
       ELSE LET i == CHOOSE i \in starts : \A k \in starts : i <= k
                j == CHOOSE j \in i..Len(s) :
                         s[j] = "/" /\ \A k \in i..(j - 1) : s[k] # "/"
                e == CHOOSE e \in j..Len(s) :
                         /\ \A k \in (j + 1)..e : s[k] \in RepoChars
                         /\ e = Len(s) \/ s[e + 1] \notin RepoChars
            IN Some(SubSeq(s, i, e))

\* context is Optional[Dict]: is_none, or dict, a function on its keys
_extract_repo_info(q, ctx) ==
    IF ~ctx.is_none /\ DOMAIN ctx.dict # {} /\ "repository" \in DOMAIN ctx.dict
    THEN Some(ctx.dict["repository"])
    ELSE re_search(q)

(***************************************************************************)
(* _filter_relevant_files                                                  *)
(***************************************************************************)
\* query.split(): the terms with the query's case kept
query_terms_cased(q) == split(q)

\* query.lower().split(): a list, a repeated term is repeated in it
query_terms(q) == split(lower(q))

\* file.name as given
filename_cased(file) == file.name

\* file.name.lower()
filename(file) == lower(file.name)

\* the loop over query_terms, in halves: 2 for each term found in filename
RECURSIVE term_score(_, _)
term_score(terms, fname) ==
    IF terms = <<>> THEN 0
    ELSE (IF contains(Head(terms), fname) THEN 2 ELSE 0)
         + term_score(Tail(terms), fname)

\* the score without the extension bonus
score_without_bonus(file, terms) == term_score(terms, filename(file))

\* the score of one file, in halves: the extension bonus 0.5 is 1
score(file, terms) ==
    LET fname == filename(file)
    IN term_score(terms, fname) + (IF endswith(fname, Extensions) THEN 1 ELSE 0)

\* score >= 0 in place of score > 0
kept_nonnegative(s) == s >= 0

\* if score > 0
kept(s) == s > 0

\* scored_files after the loop: the (score, file) tuples kept, in input order
scored_files(fs, q) ==
    LET terms == query_terms(q)
        tuples == [i \in 1..Len(fs) |-> [score |-> score(fs[i], terms), file |-> fs[i]]]
        keep(t) == kept(t.score)
    IN SelectSeq(tuples, keep)

\* the TypeError of comparing two ContentFile objects with <
TypeErrorMessage == "'<' not supported between instances of 'ContentFile' and 'ContentFile'"

\* sorted(key=score)[::-1]: no file is compared, equal scores come out reversed
RECURSIVE sorted_by_score_reversed(_)
sorted_by_score_reversed(tuples) ==
    IF tuples = <<>> THEN [raised |-> FALSE, value |-> <<>>]
    ELSE LET rest == sorted_by_score_reversed(SubSeq(tuples, 1, Len(tuples) - 1)).value
             t == tuples[Len(tuples)]
             k == Cardinality({i \in 1..Len(rest) : rest[i].score > t.score})
         IN [raised |-> FALSE,
             value |-> SubSeq(rest, 1, k) \o <<t>> \o SubSeq(rest, k + 1, Len(rest))]

\* stable insertion of the tuples by score descending
RECURSIVE sort_descending(_)
sort_descending(tuples) ==
    IF tuples = <<>> THEN <<>>
    ELSE LET rest == sort_descending(SubSeq(tuples, 1, Len(tuples) - 1))
             t == tuples[Len(tuples)]
             k == Cardinality({i \in 1..Len(rest) : rest[i].score >= t.score})
         IN SubSeq(rest, 1, k) \o <<t>> \o SubSeq(rest, k + 1, Len(rest))

\* sorted(scored_files, reverse=True): the tuples are compared whole, so two
\* tuples of equal score compare their files; two files that are not equal
\* have no <, and the sort raises TypeError
sorted_reverse(tuples) ==
    IF \E i, j \in 1..Len(tuples) :
           /\ i < j
           /\ tuples[i].score = tuples[j].score
           /\ tuples[i].file # tuples[j].file
    THEN [raised |-> TRUE, value |-> <<>>]
    ELSE [raised |-> FALSE, value |-> sort_descending(tuples)]

\* raised: the call raised TypeError; value: the list it returned otherwise
_filter_relevant_files(fs, q) ==
    LET s == sorted_reverse(scored_files(fs, q))
    IN [raised |-> s.raised,
        value |-> [i \in 1..Len(s.value) |-> s.value[i].file]]

(***************************************************************************)
(* Inputs: queries, contexts, and the answers of the remote provider       *)
(***************************************************************************)
Query_example == <<"S", "h", "o", "w", " ", "m", "e", " ", "R", "E", "A", "D", "M", "E", " ", "i", "n", " ", "o", "c", "t", "o", "c", "a", "t", "/", "H", "e", "l", "l", "o", "-", "W", "o", "r", "l", "d">>

Query_empty == <<>>

Query_blank == <<" ", "\t">>

Query_abc == <<"a", " ", "b", " ", "c", " ", "o", "/", "r">>

Query_dup == <<"r", "e", "a", "d", "m", "e", " ", "R", "E", "A", "D", "M", "E">>

Query_one == <<"r", "e", "a", "d", "m", "e">>

Query_slash == <<"s", "e", "e", " ", "a", "/", " ", "b">>

Query_two == <<"z", "z", " ", "y", "/", "z", ".", "w", "_", "v", "-", "1", " ", "q", "/", "r">>

Query_upper == <<"R", "E", "A", "D", "M", "E", " ", "R", "E", "A", "D", "M", "E">>

Queries == {Query_example, Query_empty, Query_blank, Query_abc, Query_dup, Query_one, Query_upper, Query_slash, Query_two}

Id_o_r == <<"o", "/", "r">>

Contexts ==
    { [is_none |-> TRUE, dict |-> <<>>],
      [is_none |-> FALSE, dict |-> <<>>],
      [is_none |-> FALSE, dict |-> [repository |-> Id_o_r]],
      [is_none |-> FALSE, dict |-> [repository |-> <<>>]],
      [is_none |-> FALSE, dict |-> [branch |-> <<"m">>]] }

Name_README_md == <<"R", "E", "A", "D", "M", "E", ".", "m", "d">>

Name_src == <<"s", "r", "c">>

Name_LICENSE_txt == <<"L", "I", "C", "E", "N", "S", "E", ".", "t", "x", "t">>

Name_A_MD == <<"A", ".", "M", "D">>

Name_readme == <<"r", "e", "a", "d", "m", "e">>

Name_x_md == <<"x", ".", "m", "d">>

Name_a == <<"a">>

Name_a_md == <<"a", ".", "m", "d">>

Name_ab == <<"a", "b">>

Name_ab_md == <<"a", "b", ".", "m", "d">>

Name_abc == <<"a", "b", "c">>

Name_abc_md == <<"a", "b", "c", ".", "m", "d">>

\* a ContentFile of the top-level listing: there path is the name
Entry(n, sz) == [name |-> n, path |-> n, html_url |-> <<"/">> \o n, size |-> sz]

Pool ==
    { Entry(Name_README_md, 99999), Entry(Name_README_md, 100000),
      Entry(Name_src, 0), Entry(Name_LICENSE_txt, 100000),
      Entry(Name_A_MD, 100001), Entry(Name_readme, 5) }

\* seven entries that Query_abc gives seven different scores
ManyFiles ==
    << Entry(Name_ab, 7), Entry(Name_x_md, 100000), Entry(Name_abc_md, 99999),
       Entry(Name_a, 0), Entry(Name_ab_md, 100001), Entry(Name_abc, 3),
       Entry(Name_a_md, 1) >>

\* a directory listing never holds two entries of the same name
Listings ==
    {ManyFiles} \cup
    UNION { { l \in [1..n -> Pool] :
                \A i, j \in 1..n : i # j => l[i].name # l[j].name }
            : n \in 0..MaxLen }

Repos ==
    { [name |-> "Hello-World", description |-> "My first repository",
       stargazers_count |-> 80, forks_count |-> 9, language |-> "none",
       html_url |-> "https://github.com/octocat/Hello-World"] }

Texts == {"# Hello"}

Messages == {"404 Not Found", "403 rate limit exceeded"}

(***************************************************************************)
(* process_query                                                           *)
(***************************************************************************)
NoRepositoryMessage == "No repository information found in query"

Metadata == [source |-> "github"]

_create_error_response(error_message) ==
    << [type |-> "error", content |-> error_message, metadata |-> Metadata] >>

\* an except clause that appends the error item to the content built so far
except_keeps_content(cont, message) == cont \o _create_error_response(message)

\* except Exception as e: return self._create_error_response(str(e))
except_Exception(cont, message) == _create_error_response(message)

repository_info(repo) ==
    [type |-> "repository_info",
     content |-> [name |-> repo.name, description |-> repo.description,
                  stars |-> repo.stargazers_count, forks |-> repo.forks_count,
                  language |-> repo.language, url |-> repo.html_url],
     metadata |-> Metadata]

file_content(file, text) ==
    [type |-> "file_content",
     content |-> [name |-> file.name, path |-> file.path,
                  url |-> file.html_url, content |-> text],
     metadata |-> Metadata]

\* relevant_files without the slice
not_sliced(rf) == rf

\* relevant_files[:5]
first_five(rf) == SubSeq(rf, 1, IF Len(rf) < MaxFiles THEN Len(rf) ELSE MaxFiles)

\* file.size <= 100000
size_at_most_limit(file) == file.size <= SizeLimit

\* file.size < 100000: decoded_content is read only then
size_below_limit(file) == file.size < SizeLimit

NoException == [raised |-> FALSE, message |-> "", step |-> ""]

Exception(message, step) == [raised |-> TRUE, message |-> message, step |-> step]

NotRanked == [raised |-> FALSE, value |-> <<>>]

Call(op, arg) == [op |-> op, arg |-> arg]

\* the state of the resolver before process_query runs
ResolverStart ==
    /\ repo_info = None
    /\ content = <<>>
    /\ search_results = <<>>
    /\ relevant_files = <<>>
    /\ idx = 1
    /\ result = <<>>
    /\ calls = <<>>
    /\ exc = NoException

\* the state of the ranker before it is called
RankerStart ==
    /\ scores = <<>>
    /\ other_scores = <<>>
    /\ ranked = NotRanked
    /\ reranked = NotRanked

Init ==
    /\ query \in Queries
    /\ context \in Contexts
    /\ pc = "extract"
    /\ ResolverStart
    /\ files = <<>>
    /\ other_query = <<>>
    /\ rpc = "idle"
    /\ RankerStart

\* the exception of a step reaches the except clause, which returns
Raise(message) ==
    /\ exc' = Exception(message, pc)
    /\ result' = except_Exception(content, message)
    /\ pc' = "done"

\* lines 22-24
Extract ==
    /\ pc = "extract"
    /\ repo_info' = _extract_repo_info(query, context)
    /\ IF truthy(repo_info')
       THEN pc' = "get_repo" /\ UNCHANGED result
       ELSE /\ result' = _create_error_response(NoRepositoryMessage)
            /\ pc' = "done"
    /\ UNCHANGED <<query, context, content, search_results, relevant_files,
                   idx, calls, exc>>
    /\ UNCHANGED ranker_vars

\* lines 27-47, the provider answers
GetRepo(repo) ==
    /\ pc = "get_repo"
    /\ calls' = Append(calls, Call("get_repo", repo_info.value))
    /\ content' = <<repository_info(repo)>>
    /\ pc' = "get_contents"
    /\ UNCHANGED <<query, context, repo_info, search_results, relevant_files,
                   idx, result, exc>>
    /\ UNCHANGED ranker_vars

\* line 27, the provider raises
GetRepoRaises(message) ==
    /\ pc = "get_repo"
    /\ calls' = Append(calls, Call("get_repo", repo_info.value))
    /\ Raise(message)
    /\ UNCHANGED <<query, context, repo_info, content, search_results,
                   relevant_files, idx>>
    /\ UNCHANGED ranker_vars

\* line 50, the provider answers
GetContents(listing) ==
    /\ pc = "get_contents"
    /\ calls' = Append(calls, Call("get_contents", <<>>))
    /\ search_results' = listing
    /\ pc' = "filter"
    /\ UNCHANGED <<query, context, repo_info, content, relevant_files, idx,
                   result, exc>>
    /\ UNCHANGED ranker_vars

\* line 50, the provider raises
GetContentsRaises(message) ==
    /\ pc = "get_contents"
    /\ calls' = Append(calls, Call("get_contents", <<>>))
    /\ Raise(message)
    /\ UNCHANGED <<query, context, repo_info, content, search_results,
                   relevant_files, idx>>
    /\ UNCHANGED ranker_vars

\* line 51
Filter ==
    /\ pc = "filter"
    /\ LET r == _filter_relevant_files(search_results, query)
       IN IF r.raised
          THEN /\ Raise(TypeErrorMessage)
               /\ UNCHANGED relevant_files
          ELSE /\ relevant_files' = r.value
               /\ pc' = "files"
               /\ UNCHANGED <<result, exc>>
    /\ UNCHANGED <<query, context, repo_info, content, search_results, idx, calls>>
    /\ UNCHANGED ranker_vars

\* lines 53-66, one iteration on a file of 100000 bytes or more
FileTooLarge ==
    /\ pc = "files"
    /\ idx <= Len(first_five(relevant_files))
    /\ LET file == first_five(relevant_files)[idx]
       IN /\ ~size_below_limit(file)
          /\ content' = Append(content, file_content(file, "File too large"))
    /\ idx' = idx + 1
    /\ UNCHANGED <<query, context, pc, repo_info, search_results,
                   relevant_files, result, calls, exc>>
    /\ UNCHANGED ranker_vars

\* lines 53-66, one iteration on a smaller file, decoded_content answers
FileFetched(text) ==
    /\ pc = "files"
    /\ idx <= Len(first_five(relevant_files))
    /\ LET file == first_five(relevant_files)[idx]
       IN /\ size_below_limit(file)
          /\ calls' = Append(calls, Call("decoded_content", file.name))
          /\ content' = Append(content, file_content(file, text))
    /\ idx' = idx + 1
    /\ UNCHANGED <<query, context, pc, repo_info, search_results,
                   relevant_files, result, exc>>
    /\ UNCHANGED ranker_vars

\* line 60, decoded_content or decode('utf-8') raises
FileFetchRaises(message) ==
    /\ pc = "files"
    /\ idx <= Len(first_five(relevant_files))
    /\ LET file == first_five(relevant_files)[idx]
       IN /\ size_below_limit(file)
          /\ calls' = Append(calls, Call("decoded_content", file.name))
    /\ Raise(message)
    /\ UNCHANGED <<query, context, repo_info, content, search_results,
                   relevant_files, idx>>
    /\ UNCHANGED ranker_vars

\* line 68
Return ==
    /\ pc = "files"
    /\ idx > Len(first_five(relevant_files))
    /\ result' = content
    /\ pc' = "done"
    /\ UNCHANGED <<query, context, repo_info, content, search_results,
                   relevant_files, idx, calls, exc>>
    /\ UNCHANGED ranker_vars

Next ==
    \/ Extract
    \/ \E repo \in Repos : GetRepo(repo)
    \/ \E message \in Messages : GetRepoRaises(message)
    \/ \E listing \in Listings : GetContents(listing)
    \/ \E message \in Messages : GetContentsRaises(message)
    \/ Filter
    \/ FileTooLarge
    \/ \E text \in Texts : FileFetched(text)
    \/ \E message \in Messages : FileFetchRaises(message)
    \/ Return

Spec == Init /\ [][Next]_vars

(***************************************************************************)
(* The ranker on its own: _filter_relevant_files applied to a listing and  *)
(* a query, then to its own result; the scores of a second query           *)
(***************************************************************************)
InitRanker ==
    /\ files \in Listings
    /\ query \in Queries
    /\ other_query \in Queries
    /\ rpc = "score"
    /\ RankerStart
    /\ context = [is_none |-> TRUE, dict |-> <<>>]
    /\ pc = "idle"
    /\ ResolverStart

\* lines 91-105 for query and for other_query: the score of every file
Score ==
    /\ rpc = "score"
    /\ scores' = [i \in 1..Len(files) |-> score(files[i], query_terms(query))]
    /\ other_scores' = [i \in 1..Len(files) |-> score(files[i], query_terms(other_query))]
    /\ rpc' = "rank"
    /\ UNCHANGED <<files, query, other_query, ranked, reranked>>
    /\ UNCHANGED resolver_vars

\* _filter_relevant_files(files, query)
Rank ==
    /\ rpc = "rank"
    /\ ranked' = _filter_relevant_files(files, query)
    /\ rpc' = "rerank"
    /\ UNCHANGED <<files, query, other_query, scores, other_scores, reranked>>
    /\ UNCHANGED resolver_vars

\* _filter_relevant_files on the list the first call returned
Rerank ==
    /\ rpc = "rerank"
    /\ ~ranked.raised
    /\ reranked' = _filter_relevant_files(ranked.value, query)
    /\ rpc' = "done"
    /\ UNCHANGED <<files, query, other_query, scores, other_scores, ranked>>
    /\ UNCHANGED resolver_vars

NextRanker == Score \/ Rank \/ Rerank

SpecRanker == InitRanker /\ [][NextRanker]_vars

(***************************************************************************)
(* Properties of process_query, checked under Spec                         *)
(***************************************************************************)

\* C1: whatever the query, the context and the provider's answers, the
\* sequence process_query returns is either exactly one error item, or one
\* repository_info item followed by at most five file_content items.
C1_OutputShape ==
    pc = "done" =>
        \/ Len(result) = 1 /\ result[1].type = "error"
        \/ /\ Len(result) >= 1
           /\ Len(result) <= 6
           /\ result[1].type = "repository_info"
           /\ \A i \in 2..Len(result) : result[i].type = "file_content"

\* a call that ranked more than five files and returned five file items
C1_Witness ==
    /\ pc = "done"
    /\ ~exc.raised
    /\ Len(relevant_files) > 5
    /\ Len(result) = 6
    /\ result[6].type = "file_content"

\* C2: when a step after the extraction raises (get_repo, get_contents, the
\* ranking, or the content of the k-th selected file), process_query returns
\* exactly one error item carrying the exception's message; the items built
\* before are not in the result.
C2_FailureGivesSingleError ==
    exc.raised =>
        /\ pc = "done"
        /\ Len(result) = 1
        /\ result[1].type = "error"
        /\ result[1].content = exc.message

\* the content of the fifth selected file raised after the repository_info
\* item and four file items had been built
C2_Witness ==
    /\ exc.raised
    /\ exc.step = "files"
    /\ idx = 5
    /\ Len(content) = 5
    /\ content[1].type = "repository_info"
    /\ Len(result) = 1

\* C3: a query with no "repository" entry in its context and no substring of
\* the form owner/name makes the extractor return None and process_query
\* return the one error item "No repository information found in query",
\* with no call to the provider.
C3_NoRepositoryNoCalls ==
    LET Matches(w) ==
            \E j \in 2..(Len(w) - 1) :
                /\ w[j] = "/"
                /\ \A k \in 1..(j - 1) : w[k] \in OwnerChars
                /\ \A k \in (j + 1)..Len(w) : w[k] \in RepoChars
        NoPattern ==
            \A a, b \in 1..Len(query) : a <= b => ~Matches(SubSeq(query, a, b))
        NoKey == context.is_none \/ "repository" \notin DOMAIN context.dict
    IN (pc \notin {"extract", "idle"} /\ NoKey /\ NoPattern) =>
           /\ pc = "done"
           /\ repo_info = None
           /\ Len(result) = 1
           /\ result[1].type = "error"
           /\ result[1].content = "No repository information found in query"
           /\ calls = <<>>

\* a query that holds a "/" but no owner/name, with a context of another key
C3_Witness ==
    /\ pc = "done"
    /\ query = Query_slash
    /\ ~context.is_none
    /\ DOMAIN context.dict = {"branch"}
    /\ repo_info = None
    /\ calls = <<>>

\* C4: a selected file of 100000 bytes or more gets the content "File too
\* large" and its decoded_content is never read; a selected file of 99999
\* bytes or less has its decoded_content read; and the files selected are
\* those the ranker selects when every size is replaced by 0.
C4_SizeGuard ==
    LET Fetched(file) ==
            \E i \in 1..Len(calls) :
                calls[i].op = "decoded_content" /\ calls[i].arg = file.name
        Erased == [i \in 1..Len(search_results) |->
                       [search_results[i] EXCEPT !.size = 0]]
        Names(fs) == [i \in 1..Len(fs) |-> fs[i].name]
    IN /\ \A k \in 1..(Len(content) - 1) :
              /\ relevant_files[k].size >= 100000 =>
                     /\ content[k + 1].content.content = "File too large"
                     /\ ~Fetched(relevant_files[k])
              /\ relevant_files[k].size <= 99999 =>
                     /\ Fetched(relevant_files[k])
                     /\ content[k + 1].content.content \in Texts
       /\ \A i \in 1..Len(search_results) :
              search_results[i].size >= 100000 => ~Fetched(search_results[i])
       /\ (exc.raised /\ exc.step = "files") =>
              /\ relevant_files[idx].size <= 99999
              /\ calls[Len(calls)] = Call("decoded_content", relevant_files[idx].name)
       /\ pc \in {"files", "done"} =>
              Names(relevant_files) =
                  Names(_filter_relevant_files(Erased, query).value)

\* a returned result with a file of exactly 100000 bytes and one of 99999
C4_Witness ==
    /\ pc = "done"
    /\ ~exc.raised
    /\ \E i, j \in 2..Len(result) :
           /\ relevant_files[i - 1].size = 100000
           /\ result[i].content.content = "File too large"
           /\ relevant_files[j - 1].size = 99999
           /\ result[j].content.content \in Texts

(***************************************************************************)
(* Properties of _filter_relevant_files, checked under SpecRanker          *)
(***************************************************************************)

\* C5 as stated: an entry whose lower-cased name contains no lower-cased query
\* term and whose name as given does not end in .md, .txt, .py, .js or .java
\* is absent from the ranker's output.
C5_ExclusionCaseSensitive ==
    LET terms == split(lower(query))
        NoTerm(file) ==
            \A i \in 1..Len(terms) : ~contains(terms[i], lower(file.name))
    IN rpc \in {"rerank", "done"} =>
           \A i \in 1..Len(files) :
               (NoTerm(files[i]) /\ ~endswith(files[i].name, Extensions)) =>
                   \A k \in 1..Len(ranked.value) : ranked.value[k] # files[i]

\* C5 amended: an entry whose lower-cased name contains no lower-cased query
\* term and whose lower-cased name does not end in .md, .txt, .py, .js or
\* .java is absent from the ranker's output.
C5_ExclusionLowerCased ==
    LET terms == split(lower(query))
        NoTerm(file) ==
            \A i \in 1..Len(terms) : ~contains(terms[i], lower(file.name))
    IN rpc \in {"rerank", "done"} =>
           \A i \in 1..Len(files) :
               (NoTerm(files[i]) /\ ~endswith(lower(files[i].name), Extensions)) =>
                   \A k \in 1..Len(ranked.value) : ranked.value[k] # files[i]

\* the ranker returned some entries and left out one without term or extension
C5_Witness ==
    /\ rpc \in {"rerank", "done"}
    /\ ~ranked.raised
    /\ ranked.value # <<>>
    /\ query_terms(query) # <<>>
    /\ \E i \in 1..Len(files) :
           /\ files[i].name = Name_src
           /\ \A k \in 1..Len(ranked.value) : ranked.value[k] # files[i]

\* C6: ranking the list a ranking returned, with the same query, succeeds and
\* returns the same entries in the same order.
C6_Idempotent ==
    rpc = "done" => ~reranked.raised /\ reranked.value = ranked.value

\* a ranking that reordered its input and was then ranked again
C6_Witness ==
    /\ rpc = "done"
    /\ Len(ranked.value) >= 2
    /\ \E i, j \in 1..Len(files) :
           /\ i < j
           /\ ranked.value[1] = files[j]
           /\ ranked.value[2] = files[i]

\* C7 as stated: for "Show me README in octocat/Hello-World" and the listing
\* README.md, src, LICENSE.txt the scores are 1.5, 0 and 0 and the ranker
\* returns README.md alone.
C7_ExampleAsStated ==
    LET Names(fs) == [i \in 1..Len(fs) |-> fs[i].name]
    IN (/\ query = Query_example
        /\ Names(files) = <<Name_README_md, Name_src, Name_LICENSE_txt>>
        /\ rpc \in {"rerank", "done"}) =>
           /\ scores = <<3, 0, 0>>
           /\ ~ranked.raised
           /\ Names(ranked.value) = <<Name_README_md>>

\* C7 amended: for that query and listing the scores are 2.5 (the terms "me"
\* and "readme" and the .md bonus), 0 and 0.5 (the .txt bonus), and the
\* ranker returns README.md, LICENSE.txt.
C7_Example ==
    LET Names(fs) == [i \in 1..Len(fs) |-> fs[i].name]
    IN (/\ query = Query_example
        /\ Names(files) = <<Name_README_md, Name_src, Name_LICENSE_txt>>
        /\ rpc \in {"rerank", "done"}) =>
           /\ scores = <<5, 0, 1>>
           /\ ~ranked.raised
           /\ Names(ranked.value) = <<Name_README_md, Name_LICENSE_txt>>

\* the example's query and listing, ranked
C7_Witness ==
    /\ query = Query_example
    /\ Len(files) = 3
    /\ files[1].name = Name_README_md
    /\ files[2].name = Name_src
    /\ files[3].name = Name_LICENSE_txt
    /\ rpc = "done"

\* C8: for every listing and query, two entries of equal positive score
\* included, the ranker returns without failure the kept entries sorted by
\* score descending, entries of equal score in their input order.
C8_StableSortNoFailure ==
    LET terms == split(lower(query))
        Pos(file) == CHOOSE i \in 1..Len(files) : files[i] = file
        out == ranked.value
    IN rpc \in {"rerank", "done"} =>
           /\ ~ranked.raised
           /\ \A i \in 1..Len(files) :
                  score(files[i], terms) > 0 <=> \E k \in 1..Len(out) : out[k] = files[i]
           /\ \A a, b \in 1..Len(out) :
                  a < b =>
                      \/ score(out[a], terms) > score(out[b], terms)
                      \/ /\ score(out[a], terms) = score(out[b], terms)
                         /\ Pos(out[a]) < Pos(out[b])

\* C9 as stated: the terms form a set, so two queries with the same set of
\* distinct terms give every entry the same score.
C9_TermSet ==
    (rpc # "score" /\ Range(split(lower(query))) = Range(split(lower(other_query)))) =>
        scores = other_scores

\* C9 amended: the terms form a list; each occurrence of a term in the query
\* adds 1 to the score of an entry whose lower-cased name contains it, so two
\* queries with the same terms the same number of times give every entry the
\* same score.
C9_TermList ==
    LET terms == split(lower(query))
        others == split(lower(other_query))
        Count(ts, t) == Cardinality({i \in 1..Len(ts) : ts[i] = t})
        SameBag == \A t \in Range(terms) \cup Range(others) :
                       Count(terms, t) = Count(others, t)
        Bonus(file) == IF endswith(lower(file.name), Extensions) THEN 1 ELSE 0
    IN rpc # "score" =>
           /\ SameBag => scores = other_scores
           /\ \A i \in 1..Len(files) :
                  scores[i] =
                      2 * Cardinality({k \in 1..Len(terms) :
                                           contains(terms[k], lower(files[i].name))})
                      + Bonus(files[i])

\* two different queries with the same terms, one term twice, and an entry
\* that the repeated term gives 2
C9_Witness ==
    /\ rpc # "score"
    /\ query = Query_dup
    /\ other_query = Query_upper
    /\ \E i \in 1..Len(files) : scores[i] >= 4 /\ other_scores[i] = scores[i]

\* C10 as stated, on the calls that return a list: an empty listing gives an
\* empty output, and a query with no terms (empty or whitespace only) gives an
\* empty output for every listing, whatever the names and extensions.
C10_NoTermsGivesNothing ==
    (rpc \in {"rerank", "done"} /\ ~ranked.raised) =>
        /\ files = <<>> => ranked.value = <<>>
        /\ (\A i \in 1..Len(query) : query[i] \in Whitespace) => ranked.value = <<>>

\* C10 amended: an empty listing gives an empty output without failure; a
\* query with no terms scores an entry 0.5 when its lower-cased name ends in
\* .md, .txt, .py, .js or .java and 0 otherwise, so the ranker returns no
\* entry when no entry has such a name, that entry alone when one has, and
\* raises TypeError when two or more have (the failure of C8).
C10_NoTermsKeepsBonus ==
    LET HasBonus(file) == endswith(lower(file.name), Extensions)
        bonus == SelectSeq(files, HasBonus)
    IN rpc \in {"rerank", "done"} =>
           /\ files = <<>> => ~ranked.raised /\ ranked.value = <<>>
           /\ (\A i \in 1..Len(query) : query[i] \in Whitespace) =>
                  /\ Len(bonus) <= 1 => ~ranked.raised /\ ranked.value = bonus
                  /\ Len(bonus) >= 2 => ranked.raised

\* a whitespace-only query on a listing of several entries, one of them kept
C10_Witness ==
    /\ rpc \in {"rerank", "done"}
    /\ query = Query_blank
    /\ Len(files) >= 2
    /\ ~ranked.raised
    /\ Len(ranked.value) = 1

====
